---- MODULE Spec2Model ----
(***************************************************************************)
(* Wide-to-long reshape of src/main.py: the column classifier              *)
(* extract_year, the row processing loop, the removal of 'base' records,   *)
(* groupby(...).first() and the missing-column report.                     *)
(*                                                                         *)
(* Strings are sequences of one-character strings, so that the regular     *)
(* expressions of extract_year are computed character by character.        *)
(* Cell values are strings too; a missing cell (NaN) is the empty          *)
(* sequence: read_excel turns empty cells into NaN, so no cell holds ''.   *)
(***************************************************************************)
EXTENDS Integers, Sequences, FiniteSets, TLC

VARIABLES union_df, row_idx, year_data, new_df_data, new_df,
          columns_with_missing_data, pc, column_name, classified

vars == <<union_df, row_idx, year_data, new_df_data, new_df,
          columns_with_missing_data, pc, column_name, classified>>

(***************************************************************************)
(* Characters                                                              *)
(***************************************************************************)
\* \d of the regular expressions
Digit == {"0", "1", "2", "3", "4", "5", "6", "7", "8", "9"}

\* \s of the regular expressions, and what str.strip() removes
Whitespace == {" ", "\t", "\n", "\r"}

\* the year token is \d{4}
YearDigits == 4

None == << >>
NaN == << >>

Min(S) == CHOOSE x \in S : \A y \in S : x <= y
Max(S) == CHOOSE x \in S : \A y \in S : x >= y

\* s[lo..hi] lies inside s and holds only characters of S
AllIn(s, lo, hi, S) == lo >= 1 /\ hi <= Len(s) /\ \A k \in lo..hi : s[k] \in S

\* s[p] exists and is the character c
CharAt(s, p, c) == p >= 1 /\ p <= Len(s) /\ s[p] = c

\* '$' without re.MULTILINE: the number of characters before a position where
\* it matches, i.e. the end of the string and just before a final newline
EndOfString(s) ==
    {Len(s)} \cup (IF CharAt(s, Len(s), "\n") THEN {Len(s) - 1} ELSE {})

\* \s* is greedy and \d never matches whitespace: from p the match of \s*
\* ends right before the first non-whitespace character at or after p
RECURSIVE SkipWhitespace(_, _)
SkipWhitespace(s, p) ==
    IF p > Len(s) \/ s[p] \notin Whitespace THEN p
    ELSE SkipWhitespace(s, p + 1)

\* str.rstrip() in the place of str.strip()
rstrip(s) ==
    LET keep == {k \in 1..Len(s) : s[k] \notin Whitespace}
    IN  IF keep = {} THEN << >> ELSE SubSeq(s, 1, Max(keep))

\* str.strip()
strip(s) ==
    LET keep == {k \in 1..Len(s) : s[k] \notin Whitespace}
    IN  IF keep = {} THEN << >> ELSE SubSeq(s, Min(keep), Max(keep))

(***************************************************************************)
(* (\d{4})\/\d{4}$ : the last index of a match that starts at st, 0 if     *)
(* there is none                                                           *)
(***************************************************************************)
RangeEnd(s, st) ==
    LET e == st + 2 * YearDigits
    IN  IF /\ AllIn(s, st, st + YearDigits - 1, Digit)
           /\ CharAt(s, st + YearDigits, "/")
           /\ AllIn(s, st + YearDigits + 1, e, Digit)
           /\ e \in EndOfString(s)
        THEN e ELSE 0

\* (\d{4})\/?$ : the same; \/? is greedy, the slash is tried first
SingleEnd(s, st) ==
    LET d == st + YearDigits - 1
    IN  IF ~AllIn(s, st, d, Digit) THEN 0
        ELSE IF CharAt(s, d + 1, "/") /\ (d + 1) \in EndOfString(s) THEN d + 1
        ELSE IF d \in EndOfString(s) THEN d
        ELSE 0

\* \d{4}\/?\d{4}$ of the 'base' comprehension
PairEnd(s, st) ==
    LET d == st + YearDigits - 1
        WithSlash == d + 1 + YearDigits
        NoSlash == d + YearDigits
    IN  IF ~AllIn(s, st, d, Digit) THEN 0
        ELSE IF /\ CharAt(s, d + 1, "/")
                /\ AllIn(s, d + 2, WithSlash, Digit)
                /\ WithSlash \in EndOfString(s) THEN WithSlash
        ELSE IF AllIn(s, d + 1, NoSlash, Digit) /\ NoSlash \in EndOfString(s)
             THEN NoSlash
        ELSE 0

\* the last index of the match of a pattern that starts at st, 0 if none
MatchEnd(pattern, s, st) ==
    CASE pattern = "range" -> RangeEnd(s, st)
      [] pattern = "single" -> SingleEnd(s, st)
      [] pattern = "pair" -> PairEnd(s, st)

\* re.search(pattern, s): the starts of the matches; re.search returns the
\* leftmost one
search(pattern, s) == {st \in 1..Len(s) : MatchEnd(pattern, s, st) # 0}

\* re.sub(r'\s*' + pattern, '', s): the leftmost match starts at the first
\* position p from which whitespace leads to a match of the pattern. What
\* follows the match is at most one newline, where no second match starts.
\* The string is returned unchanged when nothing matches.
sub(pattern, s) ==
    LET from == {p \in 1..Len(s) :
                     MatchEnd(pattern, s, SkipWhitespace(s, p)) # 0}
    IN  IF from = {} THEN s
        ELSE LET p == Min(from)
                 e == MatchEnd(pattern, s, SkipWhitespace(s, p))
             IN  SubSeq(s, 1, p - 1) \o SubSeq(s, e + 1, Len(s))

\* the last year token of the match in the place of the first
group_last(pattern, s) ==
    LET e == MatchEnd(pattern, s, Min({st \in 1..Len(s) : MatchEnd(pattern, s, st) # 0}))
        d == IF s[e] = "/" THEN e - 1 ELSE e
    IN  SubSeq(s, d - YearDigits + 1, d)

\* match.group(1): the first year token of the leftmost match
group1(pattern, s) ==
    LET st == Min(search(pattern, s))
    IN  SubSeq(s, st, st + YearDigits - 1)

(***************************************************************************)
(* extract_year(column_name): (year, new column name); year is None for a  *)
(* column that carries no year                                             *)
(***************************************************************************)
extract_year(name) ==
    IF search("range", name) # {}
    THEN [year |-> group1("range", name), name |-> strip(sub("range", name))]
    ELSE IF search("single", name) # {}
    THEN [year |-> group1("single", name), name |-> strip(sub("single", name))]
    ELSE [year |-> None, name |-> strip(name)]

(***************************************************************************)
(* Column names and cell values of the tables                              *)
(***************************************************************************)
\* 'Company name Latin alphabet'
ID_COL ==
    <<"C", "o", "m", "p", "a", "n", "y", " ", "n", "a", "m", "e", " ", "L", "a", "t", "i", "n", " ", "a", "l", "p", "h", "a", "b", "e", "t">>

\* 'Year'
YEAR ==
    <<"Y", "e", "a", "r">>

\* 'origin', the column added to every file that is read
ORIGIN ==
    <<"o", "r", "i", "g", "i", "n">>

\* 'base', the key of the record of the columns without a year
BASE ==
    <<"b", "a", "s", "e">>

\* 'Revenue 2020', 'Employees 2020', 'Revenue 2021'
REVENUE_2020 ==
    <<"R", "e", "v", "e", "n", "u", "e", " ", "2", "0", "2", "0">>

EMPLOYEES_2020 ==
    <<"E", "m", "p", "l", "o", "y", "e", "e", "s", " ", "2", "0", "2", "0">>

REVENUE_2021 ==
    <<"R", "e", "v", "e", "n", "u", "e", " ", "2", "0", "2", "1">>

\* 'Revenue 2020/2021', the same year and field as 'Revenue 2020'
REVENUE_2020_2021 ==
    <<"R", "e", "v", "e", "n", "u", "e", " ", "2", "0", "2", "0", "/", "2", "0", "2", "1">>

\* 'Year 2020' and 'Company name Latin alphabet 2020': columns of a year
\* whose name without the year is the name of a key field
YEAR_2020 ==
    <<"Y", "e", "a", "r", " ", "2", "0", "2", "0">>

ID_COL_2020 ==
    ID_COL \o <<" ", "2", "0", "2", "0">>

\* the columns a table has between the entity identifier and 'origin'
Schemas ==
    { << >>,
      <<REVENUE_2020>>,
      <<REVENUE_2020, EMPLOYEES_2020>>,
      <<REVENUE_2020, REVENUE_2021>>,
      <<REVENUE_2020, REVENUE_2020_2021>>,
      <<REVENUE_2020, YEAR_2020>>,
      <<REVENUE_2020, ID_COL_2020>>,
      <<REVENUE_2020, YEAR>>,
      <<YEAR>> }

\* the column names of all the tables
ColumnNames ==
    {ID_COL, ORIGIN} \cup UNION {{extra[k] : k \in 1..Len(extra)} : extra \in Schemas}

\* row[col]: union_df keeps one value per column for every row
Cell(df, row, col) ==
    df.rows[row][CHOOSE k \in 1..Len(df.columns) : df.columns[k] = col]

\* extract_year(col) and re.search(r'\d{4}\/?\d{4}$', col) depend on the column
\* name alone: they are computed once for every column name
Classification == [col \in ColumnNames |-> extract_year(col)]

InBase == [col \in ColumnNames |-> search("pair", col) = {}]

(***************************************************************************)
(* year_data, the dict of one row: its entries in insertion order, each a  *)
(* key and the record stored under it. A key is the tuple (entity, year)   *)
(* or the string 'base'. A record is a function from field names to        *)
(* values (the order of the fields of a record is not modelled).           *)
(***************************************************************************)
TupleKey(entity, year) == [kind |-> "tuple", entity |-> entity, year |-> year]

StrKey(str) == [kind |-> "str", str |-> str]

\* key in year_data. A NaN entity is the same object each time it is read
\* from the row (the row holds objects: 'origin' is a string column), so the
\* tuple (nan, year) is found again.
HasKey(yd, key) == \E k \in 1..Len(yd) : yd[k].key = key

\* year_data[key][field] = value
SetField(yd, key, field, value) ==
    [k \in 1..Len(yd) |->
        IF yd[k].key = key
        THEN [yd[k] EXCEPT !.rec =
                 [f \in DOMAIN yd[k].rec \cup {field} |->
                     IF f = field THEN value ELSE yd[k].rec[f]]]
        ELSE yd[k]]

\* year_data[key] = rec: a new key is appended, an old one keeps its place
SetKey(yd, key, rec) ==
    IF HasKey(yd, key)
    THEN [k \in 1..Len(yd) |->
             IF yd[k].key = key THEN [key |-> key, rec |-> rec]
             ELSE yd[k]]
    ELSE Append(yd, [key |-> key, rec |-> rec])

\* {col: row[col] for col in union_df.columns
\*      if not re.search(r'\d{4}\/?\d{4}$', col)}
BaseRecord(df, row) ==
    LET cols == {df.columns[k] : k \in 1..Len(df.columns)}
        kept == {c \in cols : InBase[c]}
    IN  [c \in kept |-> Cell(df, row, c)]

\* the body of 'for col in union_df.columns' for the column at position c
ColumnStep(df, row, yd, c) ==
    LET col == df.columns[c]
        ex == Classification[col]
        entity == Cell(df, row, ID_COL)
        key == TupleKey(entity, ex.year)
        fresh == IF HasKey(yd, key) THEN yd
                 ELSE SetKey(yd, key,
                             [f \in {ID_COL, YEAR} |->
                                 IF f = ID_COL THEN entity ELSE ex.year])
    IN  IF ex.year # None
        THEN SetField(fresh, key, ex.name, Cell(df, row, col))
        ELSE IF ~HasKey(yd, StrKey(ID_COL))
        THEN SetKey(yd, StrKey(BASE), BaseRecord(df, row))
        ELSE yd

\* year_data after the columns 1..c of the row
RECURSIVE ColumnLoop(_, _, _)
ColumnLoop(df, row, c) ==
    IF c = 0 THEN << >>
    ELSE ColumnStep(df, row, ColumnLoop(df, row, c - 1), c)

\* year_data after 'for col in union_df.columns' for one row
YearData(df, row) == ColumnLoop(df, row, Len(df.columns))

\* year_data.values(): the records of the dict in insertion order
DictValues(yd) == [k \in 1..Len(yd) |-> yd[k].rec]

(***************************************************************************)
(* pandas: DataFrame(list of dicts), groupby(keys).first().reset_index()   *)
(* and isnull().any(). A frame is its set of columns and its records in    *)
(* order, every record a function on all the columns (the order of the     *)
(* columns is not modelled).                                               *)
(***************************************************************************)
\* pd.DataFrame(data): the columns are the keys of all the dicts, a key a
\* dict lacks is NaN
DataFrame(data) ==
    LET columns == UNION {DOMAIN data[k] : k \in 1..Len(data)}
    IN  [columns |-> columns,
         records |-> [k \in 1..Len(data) |->
                         [c \in columns |->
                             IF c \in DOMAIN data[k] THEN data[k][c] ELSE NaN]]]

\* the characters of the model in code point order
CodePoints ==
    <<"\t", "\n", "\r", " ", "/", "0", "1", "2", "3", "4", "5", "6",
        "7", "8", "9", "A", "B", "C", "D", "E", "F", "G", "H", "I",
        "J", "K", "L", "M", "N", "O", "P", "Q", "R", "S", "T", "U",
        "V", "W", "X", "Y", "Z", "a", "b", "c", "d", "e", "f", "g",
        "h", "i", "j", "k", "l", "m", "n", "o", "p", "q", "r", "s",
        "t", "u", "v", "w", "x", "y", "z">>

CodePoint(ch) == CHOOSE k \in 1..Len(CodePoints) : CodePoints[k] = ch

\* a < b for strings
RECURSIVE StrLess(_, _)
StrLess(a, b) ==
    IF b = << >> THEN FALSE
    ELSE IF a = << >> THEN TRUE
    ELSE IF Head(a) # Head(b) THEN CodePoint(Head(a)) < CodePoint(Head(b))
    ELSE StrLess(Tail(a), Tail(b))

\* a < b for the group keys (entity, year)
KeyLess(a, b) == StrLess(a[1], b[1]) \/ (a[1] = b[1] /\ StrLess(a[2], b[2]))

\* the keys of a set in ascending order (groupby sorts the group keys)
RECURSIVE SortKeys(_)
SortKeys(keys) ==
    IF keys = {} THEN << >>
    ELSE LET least == CHOOSE k \in keys : \A o \in keys \ {k} : KeyLess(k, o)
         IN  <<least>> \o SortKeys(keys \ {least})

\* GroupBy.last() in the place of GroupBy.first()
Last(df, rows, col) ==
    LET filled == {k \in rows : df.records[k][col] # NaN}
    IN  IF filled = {} THEN NaN ELSE df.records[Max(filled)][col]

\* GroupBy.first() for one column of one group: the first value that is not
\* null among the rows of the group, in the order of the frame; NaN if none
First(df, rows, col) ==
    LET filled == {k \in rows : df.records[k][col] # NaN}
    IN  IF filled = {} THEN NaN ELSE df.records[Min(filled)][col]

\* the frame left as it is, without the groupby
Ungrouped(df) == df

\* df.groupby([ID_COL, YEAR]).first().reset_index(): rows with a null key
\* are dropped (dropna=True), one record per key is left
GroupByFirst(df) ==
    LET idx == 1..Len(df.records)
        keyed == {k \in idx : df.records[k][ID_COL] # NaN
                              /\ df.records[k][YEAR] # NaN}
        KeyOf(k) == <<df.records[k][ID_COL], df.records[k][YEAR]>>
        sorted == SortKeys({KeyOf(k) : k \in keyed})
        Group(key) == {k \in keyed : KeyOf(k) = key}
    IN  [columns |-> df.columns,
         records |-> [g \in 1..Len(sorted) |->
                         [c \in df.columns |->
                             IF c = ID_COL THEN sorted[g][1]
                             ELSE IF c = YEAR THEN sorted[g][2]
                             ELSE First(df, Group(sorted[g]), c)]]]

\* isnull().all() in the place of isnull().any()
ColumnsAllNull(df) ==
    {c \in df.columns : \A k \in 1..Len(df.records) : df.records[k][c] = NaN}

\* new_df.columns[new_df.isnull().any()]
ColumnsWithNull(df) ==
    {c \in df.columns : \E k \in 1..Len(df.records) : df.records[k][c] = NaN}

\* record for record in new_df_data if 'Year' in record
RemoveBase(data) == SelectSeq(data, LAMBDA record : YEAR \in DOMAIN record)

(***************************************************************************)
(* The tables the program is run on                                        *)
(***************************************************************************)
MaxRows == 2

Entities == {NaN, <<"A">>, <<"B">>}
Files == {<<"f">>}

\* the values a cell of a column may hold
ValuesOf(col) ==
    IF col = REVENUE_2020 THEN {NaN, <<"1">>, <<"2">>} ELSE {NaN, <<"1">>}

\* the rows over the columns cols: one value of each column
RECURSIVE Cells(_, _)
Cells(cols, k) ==
    IF k = 0 THEN {<< >>}
    ELSE {Append(t, x) : t \in Cells(cols, k - 1), x \in ValuesOf(cols[k])}

\* the rows of a table whose columns are the entity identifier, the columns
\* extra and 'origin'
Rows(extra) ==
    {<<e>> \o v \o <<f>> :
        e \in Entities, v \in Cells(extra, Len(extra)), f \in Files}

NoFrame == [columns |-> {}, records |-> << >>]

(***************************************************************************)
(* The script from line 106 on                                             *)
(***************************************************************************)
Init ==
    /\ \E extra \in Schemas : \E n \in 0..MaxRows :
          \E rows \in [1..n -> Rows(extra)] :
             union_df = [columns |-> <<ID_COL>> \o extra \o <<ORIGIN>>,
                         rows |-> rows]
    /\ row_idx = 1
    /\ year_data = << >>
    /\ new_df_data = << >>
    /\ new_df = NoFrame
    /\ columns_with_missing_data = {}
    /\ pc = "rows"
    /\ column_name = << >>
    /\ classified = [year |-> None, name |-> << >>]

\* one iteration of 'for _, row in union_df.iterrows()'
ProcessRow ==
    /\ pc = "rows"
    /\ row_idx <= Len(union_df.rows)
    /\ year_data' = YearData(union_df, row_idx)
    /\ new_df_data' = new_df_data \o DictValues(year_data')
    /\ row_idx' = row_idx + 1
    /\ UNCHANGED <<union_df, new_df, columns_with_missing_data, pc,
                   column_name, classified>>

\* lines 127-128: the 'base' records are removed, the rest becomes new_df
RemoveBaseRecords ==
    /\ pc = "rows"
    /\ row_idx > Len(union_df.rows)
    /\ new_df_data' = RemoveBase(new_df_data)
    /\ new_df' = DataFrame(new_df_data')
    /\ pc' = "groupby"
    /\ UNCHANGED <<union_df, row_idx, year_data, columns_with_missing_data,
                   column_name, classified>>

\* line 131
GroupBy ==
    /\ pc = "groupby"
    /\ {ID_COL, YEAR} \subseteq new_df.columns
    /\ new_df' = GroupByFirst(new_df)
    /\ pc' = "report"
    /\ UNCHANGED <<union_df, row_idx, year_data, new_df_data,
                   columns_with_missing_data, column_name, classified>>

\* line 131 on a frame without the key columns (no record was left): groupby
\* raises KeyError and the script ends
GroupByKeyError ==
    /\ pc = "groupby"
    /\ ~({ID_COL, YEAR} \subseteq new_df.columns)
    /\ pc' = "KeyError"
    /\ UNCHANGED <<union_df, row_idx, year_data, new_df_data, new_df,
                   columns_with_missing_data, column_name, classified>>

\* line 134
Report ==
    /\ pc = "report"
    /\ columns_with_missing_data' = ColumnsWithNull(new_df)
    /\ pc' = "done"
    /\ UNCHANGED <<union_df, row_idx, year_data, new_df_data, new_df,
                   column_name, classified>>

Next == ProcessRow \/ RemoveBaseRecords \/ GroupBy \/ GroupByKeyError \/ Report

Spec == Init /\ [][Next]_vars

(***************************************************************************)
(* extract_year on its own: one call on a column name                      *)
(***************************************************************************)
MaxPrefix == 3
MaxTail == 9

\* all sequences over S of length at most n
RECURSIVE UpTo(_, _)
UpTo(S, n) ==
    IF n = 0 THEN {<< >>}
    ELSE LET shorter == UpTo(S, n - 1)
         IN  shorter \cup {Append(t, x) : t \in {u \in shorter : Len(u) = n - 1},
                                          x \in S}

\* the column names of section 8 of the specification
Examples ==
    { <<"R", "e", "v", "e", "n", "u", "e", " ", "2", "0", "2", "0", "/", "2", "0", "2", "1">>,
      <<"R", "e", "v", "e", "n", "u", "e", " ", "2", "0", "2", "0">>,
      <<"R", "e", "v", "e", "n", "u", "e", " ", "2", "0", "2", "0", "/">>,
      ID_COL }

\* a name is a prefix of letters, blanks and digits, then digits and slashes,
\* then nothing or a newline
Prefixes == UpTo({"a", " ", "1"}, MaxPrefix)
Tails == UpTo({"2", "/"}, MaxTail)
Endings == {<< >>, <<"\n">>}

InitClassify ==
    /\ \/ column_name \in Examples
       \/ \E p \in Prefixes, t \in Tails, e \in Endings :
             column_name = p \o t \o e
    /\ classified = [year |-> None, name |-> << >>]
    /\ pc = "call"
    /\ union_df = [columns |-> << >>, rows |-> << >>]
    /\ row_idx = 1
    /\ year_data = << >>
    /\ new_df_data = << >>
    /\ new_df = NoFrame
    /\ columns_with_missing_data = {}

\* year, new_col_name = extract_year(col)
Classify ==
    /\ pc = "call"
    /\ classified' = extract_year(column_name)
    /\ pc' = "return"
    /\ UNCHANGED <<union_df, row_idx, year_data, new_df_data, new_df,
                   columns_with_missing_data, column_name>>

NextClassify == Classify

SpecClassify == InitClassify /\ [][NextClassify]_vars

(***************************************************************************)
(* Properties of extract_year, stated on the characters of the name        *)
(***************************************************************************)
\* s without one final newline
Chomp(s) == IF CharAt(s, Len(s), "\n") THEN SubSeq(s, 1, Len(s) - 1) ELSE s

\* s ends with YYYY/YYYY
EndsWithRange(s) ==
    /\ AllIn(s, Len(s) - 8, Len(s) - 5, Digit)
    /\ CharAt(s, Len(s) - 4, "/")
    /\ AllIn(s, Len(s) - 3, Len(s), Digit)

\* s ends with YYYY or with YYYY/
EndsWithYear(s) ==
    \/ AllIn(s, Len(s) - 3, Len(s), Digit)
    \/ CharAt(s, Len(s), "/") /\ AllIn(s, Len(s) - 4, Len(s) - 1, Digit)

\* the first year of the range s ends with; the year s ends with
RangeYear(s) == SubSeq(s, Len(s) - 8, Len(s) - 5)
EndYear(s) ==
    IF s[Len(s)] = "/" THEN SubSeq(s, Len(s) - 4, Len(s) - 1)
    ELSE SubSeq(s, Len(s) - 3, Len(s))

\* the length of the year token s ends with
TokenLen(s) ==
    IF EndsWithRange(s) THEN 2 * YearDigits + 1
    ELSE IF s[Len(s)] = "/" THEN YearDigits + 1
    ELSE YearDigits

\* t is s[i..j], all of s outside i..j and up to last is whitespace, and t
\* neither starts nor ends with whitespace
TrimmedTo(s, last, t) ==
    \E i \in 1..(last + 1), j \in 0..last :
        /\ t = SubSeq(s, i, j)
        /\ AllIn(s, 1, i - 1, Whitespace)
        /\ AllIn(s, j + 1, last, Whitespace)
        /\ i <= j => s[i] \notin Whitespace /\ s[j] \notin Whitespace

Returned == pc = "return"

\* the examples of the specification
ExamplesClassified ==
    /\ column_name \in Examples \ {ID_COL} =>
          classified = [year |-> <<"2", "0", "2", "0">>,
                        name |-> <<"R", "e", "v", "e", "n", "u", "e">>]
    /\ column_name = ID_COL => classified = [year |-> None, name |-> ID_COL]

\* C5 as claimed: a name that ends with YYYY/YYYY has the first year of the
\* pair, one that otherwise ends with YYYY or YYYY/ has that year, every other
\* name has no year and is returned trimmed; and the four examples.
C5_EndOfName ==
    Returned =>
      /\ IF EndsWithRange(column_name)
         THEN classified.year = RangeYear(column_name)
         ELSE IF EndsWithYear(column_name)
         THEN classified.year = EndYear(column_name)
         ELSE /\ classified.year = None
              /\ TrimmedTo(column_name, Len(column_name), classified.name)
      /\ ExamplesClassified

\* C5 as amended: the same with the end of the name taken before one final
\* newline, which the '$' of the patterns skips.
C5_EndBeforeNewline ==
    Returned =>
      /\ IF EndsWithRange(Chomp(column_name))
         THEN classified.year = RangeYear(Chomp(column_name))
         ELSE IF EndsWithYear(Chomp(column_name))
         THEN classified.year = EndYear(Chomp(column_name))
         ELSE /\ classified.year = None
              /\ TrimmedTo(column_name, Len(column_name), classified.name)
      /\ ExamplesClassified

\* a name with a range and a final newline has been classified
C5_Witness ==
    /\ Returned
    /\ column_name # Chomp(column_name)
    /\ EndsWithRange(Chomp(column_name))
    /\ classified.year = RangeYear(Chomp(column_name))
    /\ classified.year # SubSeq(Chomp(column_name), Len(column_name) - YearDigits,
                                Len(column_name) - 1)

\* C8 as claimed, for the names that end with their year token: the base name
\* is the name up to the whitespace before the token, leading whitespace
\* included.
C8_OnlyTokenRemoved ==
    Returned /\ classified.year # None /\ column_name = Chomp(column_name) =>
      \E j \in 0..(Len(column_name) - TokenLen(column_name)) :
          /\ classified.name = SubSeq(column_name, 1, j)
          /\ AllIn(column_name, j + 1, Len(column_name) - TokenLen(column_name),
                   Whitespace)
          /\ j >= 1 => column_name[j] \notin Whitespace

\* C8 as amended: the base name is the name without the year token (and the
\* newline after it), without the whitespace before the token and without
\* leading whitespace; what lies between is kept as it is.
C8_TokenAndOuterWhitespaceRemoved ==
    Returned /\ classified.year # None =>
      TrimmedTo(column_name,
                Len(Chomp(column_name)) - TokenLen(Chomp(column_name)),
                classified.name)

\* a name with leading and inner whitespace and a year has been classified
C8_Witness ==
    /\ Returned
    /\ classified.year # None
    /\ Head(column_name) \in Whitespace
    /\ \E k \in 1..Len(classified.name) : classified.name[k] \in Whitespace

(***************************************************************************)
(* Properties of the reshape                                               *)
(***************************************************************************)
Grouped == pc \in {"report", "done"}
Done == pc = "done"

RowNumbers == 1..Len(union_df.rows)
FinalRecords == {new_df.records[k] : k \in 1..Len(new_df.records)}
KeyFields == {ID_COL, YEAR}

\* the entries of year_data one row leaves under an (entity, year) key
YearEntries(r) ==
    LET yd == YearData(union_df, r)
    IN  {yd[k] : k \in {i \in 1..Len(yd) : yd[i].key.kind = "tuple"}}

\* the records of one row that are left in new_df_data after line 127
Kept(r) ==
    LET recs == RemoveBase(DictValues(YearData(union_df, r)))
    IN  {recs[k] : k \in 1..Len(recs)}

\* the rows that give a value that is not null to field f in a record with
\* the key fields (entity, year), and the value a row gives
Givers(entity, year, f) ==
    {r \in RowNumbers : \E rec \in Kept(r) :
        /\ rec[ID_COL] = entity /\ rec[YEAR] = year
        /\ f \in DOMAIN rec /\ rec[f] # NaN}

Given(r, entity, year, f) ==
    LET rec == CHOOSE x \in Kept(r) :
                   /\ x[ID_COL] = entity /\ x[YEAR] = year
                   /\ f \in DOMAIN x /\ x[f] # NaN
    IN  rec[f]

\* two rows give different values to field f of the final record g
Conflict(g, f) ==
    \E r1, r2 \in Givers(g[ID_COL], g[YEAR], f) :
        Given(r1, g[ID_COL], g[YEAR], f) # Given(r2, g[ID_COL], g[YEAR], f)

C2_KeyUnique ==
    Grouped => \A i, j \in 1..Len(new_df.records) :
        /\ new_df.records[i][ID_COL] = new_df.records[j][ID_COL]
        /\ new_df.records[i][YEAR] = new_df.records[j][YEAR]
        => i = j

\* records of two rows with one key have been grouped, and two keys are left
C2_Witness ==
    /\ Done
    /\ Len(new_df.records) >= 2
    /\ \E i, j \in 1..Len(new_df_data) :
          /\ i # j
          /\ new_df_data[i][ID_COL] # NaN /\ new_df_data[i][YEAR] # NaN
          /\ new_df_data[i][ID_COL] = new_df_data[j][ID_COL]
          /\ new_df_data[i][YEAR] = new_df_data[j][YEAR]

\* the names a field of a record can have
FieldNames ==
    new_df.columns \cup ColumnNames \cup {Classification[c].name : c \in ColumnNames}

\* field f is present and not null in record g of the final table
Populated(g, f) == f \in DOMAIN g /\ g[f] # NaN

\* C3 as claimed: the report holds the fields that some record of the final
\* table has and some record lacks.
C3_SomeButNotAll ==
    Done => \A f \in FieldNames :
        f \in columns_with_missing_data <=>
            /\ \E g \in FinalRecords : Populated(g, f)
            /\ \E g \in FinalRecords : ~Populated(g, f)

\* C3 as amended: the report holds the columns of the final table that are
\* null in some record, also those that are null in every record.
C3_NullInSomeRecord ==
    Done => \A f \in FieldNames :
        f \in columns_with_missing_data <=>
            /\ f \in new_df.columns
            /\ \E g \in FinalRecords : ~Populated(g, f)

\* a column that no record fills is reported, one that every record fills
\* is not
C3_Witness ==
    /\ Done
    /\ \E f \in columns_with_missing_data :
          \A g \in FinalRecords : ~Populated(g, f)
    /\ \E f \in new_df.columns \ (KeyFields \cup columns_with_missing_data) :
          FinalRecords # {}

\* the fields the columns of year y write into a record, and those of them
\* that are not null in the record of an entry of year_data
Written(year) ==
    {Classification[c].name :
        c \in {x \in ColumnNames : Classification[x].year = year}}

Contributed(entry) ==
    {f \in Written(entry.key.year) \cap DOMAIN entry.rec : entry.rec[f] # NaN}

\* the entries the rows leave under the key (entity, year), with their rows
EntriesOf(entity, year) ==
    {<<r, e>> \in UNION {{<<r, e>> : e \in YearEntries(r)} : r \in RowNumbers} :
        e.key.entity = entity /\ e.key.year = year}

\* C4: when the rows of a key (entity, year) contribute disjoint sets of
\* fields, the final table has a record of that key that holds every field
\* contributed, with the value contributed.
C4_DisjointUnion ==
    Done => \A r \in RowNumbers : \A e \in YearEntries(r) :
        LET entity == e.key.entity
            year == e.key.year
            entries == EntriesOf(entity, year)
        IN  /\ entity # NaN
            /\ \E x \in entries : Contributed(x[2]) # {}
            /\ \A x, y \in entries :
                  x[1] # y[1] => Contributed(x[2]) \cap Contributed(y[2]) = {}
            => \E g \in FinalRecords :
                  /\ g[ID_COL] = entity /\ g[YEAR] = year
                  /\ \A x \in entries : \A f \in Contributed(x[2]) :
                        g[f] = x[2].rec[f]

\* lines 111-131 as one function of the table: the records of the final
\* table, none when groupby raises KeyError
RECURSIVE RecordsOfRows(_, _)
RecordsOfRows(df, n) ==
    IF n = 0 THEN << >>
    ELSE RecordsOfRows(df, n - 1) \o DictValues(YearData(df, n))

Reshaped(df) ==
    LET frame == DataFrame(RemoveBase(RecordsOfRows(df, Len(df.rows))))
    IN  IF KeyFields \subseteq frame.columns THEN GroupByFirst(frame).records
        ELSE << >>

\* the table without the rows whose entity identifier is missing
WithEntity(df) ==
    [df EXCEPT !.rows =
        SelectSeq(df.rows, LAMBDA row :
            row[CHOOSE k \in 1..Len(df.columns) : df.columns[k] = ID_COL] # NaN)]

\* C6: no record of the final table has a missing entity identifier, and
\* the rows with a missing entity identifier contribute nothing: the final
\* table is the one of the table without them.
C6_MissingEntityDropped ==
    Done =>
        /\ \A g \in FinalRecords : g[ID_COL] # NaN
        /\ new_df.records = Reshaped(WithEntity(union_df))

\* C7: the record stored under the key (entity, year) holds that entity as
\* the entity identifier and that year as 'Year'.
C7_KeyFieldsKept ==
    \A k \in 1..Len(year_data) :
        year_data[k].key.kind = "tuple" =>
            /\ year_data[k].rec[ID_COL] = year_data[k].key.entity
            /\ year_data[k].rec[YEAR] = year_data[k].key.year

\* C9: every record of the final table comes from a record that a row
\* stored under an (entity, year) key, never from a 'base' record.
C9_NoBaseRecord ==
    Done => \A g \in FinalRecords :
        \E r \in RowNumbers : \E e \in YearEntries(r) :
            e.rec[ID_COL] = g[ID_COL] /\ e.rec[YEAR] = g[YEAR]

\* C10: when no column of a year is named after a key field, the keys of
\* the final table are the entities of the rows times the years of the
\* columns.
C10_KeysAreProduct ==
    LET cols == {union_df.columns[k] : k \in 1..Len(union_df.columns)}
        years == {Classification[c].year : c \in cols} \ {None}
        entities == {Cell(union_df, r, ID_COL) : r \in RowNumbers} \ {NaN}
    IN  Done /\ (\A c \in cols : Classification[c].year # None =>
                    Classification[c].name \notin KeyFields)
        => {<<g[ID_COL], g[YEAR]>> : g \in FinalRecords} = entities \X years

====
